---- MODULE Spec2Model ----
(***************************************************************************)
(* besinveri-api: the food catalog store (insert_food, the read queries),  *)
(* the seeder (connect_database), the read handlers (food, foods_list,     *)
(* foods_search, tags_list) and the ranker (sort_foods_by_query).          *)
(*                                                                         *)
(* Strings are sequences of one-character strings; the three case/fold     *)
(* conversions the program uses (Rust's to_lowercase, SQLite's LOWER and   *)
(* LIKE, the slug derivation) are modelled character by character.         *)
(* "Sc" and "sc" stand for the two-byte letters U+015E and U+015F          *)
(* (S with cedilla, upper and lower case).                                 *)
(***************************************************************************)
EXTENDS Integers, Sequences, FiniteSets, TLC

(***************************************************************************)
(* Bounds of the model                                                     *)
(***************************************************************************)
MaxSeed == 2
MaxRuns == 2
MaxFoods == 2
MaxDescLen == 2
MaxFaults == 1
MaxInputLen == 2

(***************************************************************************)
(* Characters and strings                                                  *)
(***************************************************************************)
\* str::to_lowercase: Unicode-aware lowercasing, per character
ToLowerChar(c) ==
    CASE c = "K" -> "k"
      [] c = "A" -> "a"
      [] c = "M" -> "m"
      [] c = "S" -> "s"
      [] c = "T" -> "t"
      [] c = "G" -> "g"
      [] c = "P" -> "p"
      [] c = "E" -> "e"
      [] c = "Sc" -> "sc"
      [] OTHER -> c

\* SQLite's built-in LOWER(): folds the ASCII letters only
SqlLowerChar(c) ==
    CASE c = "K" -> "k"
      [] c = "A" -> "a"
      [] c = "M" -> "m"
      [] c = "S" -> "s"
      [] c = "T" -> "t"
      [] c = "G" -> "g"
      [] c = "P" -> "p"
      [] c = "E" -> "e"
      [] OTHER -> c

\* UTF-8 width of a character (str::len counts bytes)
ByteLen(c) == IF c \in {"sc", "Sc"} THEN 2 ELSE 1

to_lowercase(s) == [i \in 1..Len(s) |-> ToLowerChar(s[i])]

LOWER(s) == [i \in 1..Len(s) |-> SqlLowerChar(s[i])]

RECURSIVE len(_)
len(s) == IF s = <<>> THEN 0 ELSE ByteLen(Head(s)) + len(Tail(s))

starts_with(s, p) == Len(p) <= Len(s) /\ SubSeq(s, 1, Len(p)) = p

\* the character indices at which p occurs in s
Occurrences(s, p) ==
    {i \in 1..(Len(s) - Len(p) + 1) : SubSeq(s, i, i + Len(p) - 1) = p}

contains(s, p) == Occurrences(s, p) # {}

Min(S) == CHOOSE x \in S : \A y \in S : x <= y

\* str::find: byte offset of the first occurrence (only used when contains)
find(s, p) == len(SubSeq(s, 1, Min(Occurrences(s, p)) - 1))

\* to_lower_en_kebab_case: lowercase, ASCII-fold, runs of non-alphanumerics
\* become one '-'
AsciiFold(c) == IF c = "sc" THEN "s" ELSE c

IsAlnum(c) ==
    c \in {"k", "a", "m", "s", "e", "x", "1", "2",
           "r", "p", "u", "z", "o", "t", "l", "n"}

RECURSIVE Kebab(_, _)
Kebab(s, inRun) ==
    IF s = <<>> THEN <<>>
    ELSE IF IsAlnum(Head(s)) THEN <<Head(s)>> \o Kebab(Tail(s), FALSE)
    ELSE IF inRun THEN Kebab(Tail(s), TRUE)
    ELSE <<"-">> \o Kebab(Tail(s), TRUE)

to_lower_en_kebab_case(s) ==
    Kebab([i \in 1..Len(s) |-> AsciiFold(ToLowerChar(s[i]))], FALSE)

Range(s) == {s[i] : i \in 1..Len(s)}

\* SELECT id FROM t WHERE col = x: the row id (1-based position) of x
IdOf(t, x) == CHOOSE i \in 1..Len(t) : t[i] = x


(***************************************************************************)
(* Option values: None is <<>>, Some(x) is <<x>>                           *)
(***************************************************************************)
None == <<>>

Some(x) == <<x>>

unwrap_or(o, d) == IF o = None THEN d ELSE o[1]

(***************************************************************************)
(* The store: one sequence per table, a row's id is its position           *)
(***************************************************************************)
EmptyDb ==
    [food_sources |-> <<>>, food_images |-> <<>>, foods |-> <<>>,
     tags |-> <<>>, allergens |-> <<>>, serving_descriptions |-> <<>>,
     food_tags |-> <<>>, food_allergens |-> <<>>, food_servings |-> <<>>]

\* the UNIQUE column of a lookup table, and the key of a link table
UniqueViolation(t, x) == x \in Range(t)

\* foods.slug and foods.description are UNIQUE
FoodsUniqueViolation(t, row) ==
    \E i \in 1..Len(t) :
        t[i].slug = row.slug \/ t[i].description = row.description

\* food_servings is keyed by (food_id, serving_description_id)
ServingsUniqueViolation(t, row) ==
    \E i \in 1..Len(t) :
        t[i].food_id = row.food_id
            /\ t[i].serving_description_id = row.serving_description_id

\* INSERT OR IGNORE INTO t ... VALUES (x)
InsertOrIgnore(t, x) == IF UniqueViolation(t, x) THEN t ELSE Append(t, x)

\* SELECT id FROM foods WHERE description = ?  ... .is_some()
food_exists_by_description(db, description) ==
    \E i \in 1..Len(db.foods) : db.foods[i].description = description

(***************************************************************************)
(* insert_food: the statements of the transaction, in program order        *)
(***************************************************************************)
RECURSIVE ListStmts(_, _, _)
ListStmts(kind, n, i) ==
    IF i > n THEN <<>>
    ELSE << [op |-> kind \o "_ins", i |-> i],
            [op |-> kind \o "_sel", i |-> i],
            [op |-> kind \o "_link", i |-> i] >> \o ListStmts(kind, n, i + 1)

Stmts(food) ==
    << [op |-> "source_ins", i |-> 0], [op |-> "source_sel", i |-> 0],
       [op |-> "image_ins", i |-> 0], [op |-> "image_sel", i |-> 0],
       [op |-> "food_ins", i |-> 0] >>
    \o ListStmts("tag", Len(food.tags), 1)
    \o ListStmts("allergen", Len(food.allergens), 1)
    \o ListStmts("serving", Len(food.servings), 1)

\* variant: the slug of the input record is bound when it has one
FoodRow_InputSlug(food, image_id, source_id, now) ==
    [slug |-> unwrap_or(food.slug, to_lower_en_kebab_case(food.description)),
     description |-> food.description,
     verified |-> IF unwrap_or(food.verified, TRUE) THEN 1 ELSE 0,
     image_id |-> image_id,
     source_id |-> source_id,
     energy |-> food.energy,
     created_at |-> now,
     updated_at |-> now]

\* the row the INSERT INTO foods statement writes; created_at and updated_at
\* are the store's defaults, the time of the insert
FoodRow(food, image_id, source_id, now) ==
    [slug |-> to_lower_en_kebab_case(food.description),
     description |-> food.description,
     verified |-> IF unwrap_or(food.verified, TRUE) THEN 1 ELSE 0,
     image_id |-> image_id,
     source_id |-> source_id,
     energy |-> food.energy,
     created_at |-> now,
     updated_at |-> now]

\* fetch_one of a SELECT id ... LIMIT 1: the id, or 0 when no row matches
SelectId(t, x) == IF x \in Range(t) THEN IdOf(t, x) ELSE 0

\* one statement executed on the transaction's view st of the store
Exec(st, stmt, food) ==
    LET db == st.db
        op == stmt.op
        i == stmt.i
    IN  CASE op = "source_ins" ->
               [st EXCEPT !.db.food_sources = InsertOrIgnore(@, food.source)]
          [] op = "source_sel" ->
               [st EXCEPT !.source_id = SelectId(db.food_sources, food.source),
                          !.failed = SelectId(db.food_sources, food.source) = 0]
          [] op = "image_ins" ->
               [st EXCEPT !.db.food_images = InsertOrIgnore(@, food.image_url)]
          [] op = "image_sel" ->
               [st EXCEPT !.image_id = SelectId(db.food_images, food.image_url),
                          !.failed = SelectId(db.food_images, food.image_url) = 0]
          [] op = "food_ins" ->
               LET row == FoodRow(food, st.image_id, st.source_id, st.now)
               IN  IF FoodsUniqueViolation(db.foods, row)
                   THEN [st EXCEPT !.failed = TRUE]
                   ELSE [st EXCEPT !.db.foods = Append(@, row),
                                   !.food_id = Len(db.foods) + 1]
          [] op = "tag_ins" ->
               [st EXCEPT !.db.tags = InsertOrIgnore(@, LOWER(food.tags[i]))]
          [] op = "tag_sel" ->
               [st EXCEPT !.id = SelectId(db.tags, LOWER(food.tags[i])),
                          !.failed = SelectId(db.tags, LOWER(food.tags[i])) = 0]
          [] op = "tag_link" ->
               [st EXCEPT !.db.food_tags =
                              InsertOrIgnore(@, <<st.food_id, st.id>>)]
          [] op = "allergen_ins" ->
               [st EXCEPT !.db.allergens =
                              InsertOrIgnore(@, LOWER(food.allergens[i]))]
          [] op = "allergen_sel" ->
               [st EXCEPT !.id = SelectId(db.allergens, LOWER(food.allergens[i])),
                          !.failed =
                              SelectId(db.allergens, LOWER(food.allergens[i])) = 0]
          [] op = "allergen_link" ->
               [st EXCEPT !.db.food_allergens =
                              InsertOrIgnore(@, <<st.food_id, st.id>>)]
          [] op = "serving_ins" ->
               [st EXCEPT !.db.serving_descriptions =
                              InsertOrIgnore(@, food.servings[i][1])]
          [] op = "serving_sel" ->
               [st EXCEPT !.id = SelectId(db.serving_descriptions,
                                          food.servings[i][1]),
                          !.failed = SelectId(db.serving_descriptions,
                                              food.servings[i][1]) = 0]
          [] op = "serving_link" ->
               LET row == [food_id |-> st.food_id,
                           serving_description_id |-> st.id,
                           weight |-> food.servings[i][2]]
               IN  IF ServingsUniqueViolation(db.food_servings, row)
                   THEN st
                   ELSE [st EXCEPT !.db.food_servings = Append(@, row)]

\* pool.begin(): the transaction starts on the committed store
Begin(db, now) ==
    [db |-> db, now |-> now, source_id |-> 0, image_id |-> 0, food_id |-> 0,
     id |-> 0, failed |-> FALSE]

\* statements k.. of the transaction; stops at the first statement that
\* fails: its own error, or the store error injected at statement failAt
RECURSIVE RunTx(_, _, _, _, _)
RunTx(st, stmts, k, failAt, food) ==
    IF k > Len(stmts) THEN st
    ELSE IF k = failAt THEN [st EXCEPT !.failed = TRUE]
    ELSE LET nx == Exec(st, stmts[k], food)
         IN  IF nx.failed THEN nx ELSE RunTx(nx, stmts, k + 1, failAt, food)

\* variant: the statements run on the pool, outside any transaction
Rollback_Autocommit(db, st) == st.db

\* an early return drops tx: the transaction is rolled back
Rollback(db, st) == db

\* tx.commit()
Commit(db, st) == st.db

\* where a store error can be injected into one call: nowhere, at the
\* existence query, at begin, at commit, or at statement k: an insert of the
\* source, the image, the Food row or a tag, allergen or serving link
FailPoints(food) ==
    {[at |-> a, k |-> 0] : a \in {"none", "exists", "begin", "commit"}}
        \cup {[at |-> "stmt", k |-> k] :
                 k \in {j \in 1..Len(Stmts(food)) :
                           Stmts(food)[j].op \in
                               {"source_ins", "image_ins", "food_ins",
                                "tag_link", "allergen_link", "serving_link"}}}

\* variant: an upsert, the row of an existing description is overwritten
insert_food_Upsert(db, food, failAt, now) ==
    IF failAt.at = "exists" THEN [db |-> db, res |-> "err", id |-> 0]
    ELSE IF food_exists_by_description(db, food.description)
    THEN LET i == CHOOSE i \in 1..Len(db.foods) :
                      db.foods[i].description = food.description
         IN  [db |-> [db EXCEPT !.foods[i].verified =
                                    IF unwrap_or(food.verified, TRUE)
                                    THEN 1 ELSE 0,
                                !.foods[i].energy = food.energy,
                                !.foods[i].updated_at = now],
              res |-> "ok", id |-> i]
    ELSE IF failAt.at = "begin" THEN [db |-> db, res |-> "err", id |-> 0]
    ELSE LET st == RunTx(Begin(db, now), Stmts(food), 1, failAt.k, food)
         IN  IF st.failed \/ failAt.at = "commit"
             THEN [db |-> Rollback(db, st), res |-> "err", id |-> 0]
             ELSE [db |-> Commit(db, st), res |-> "ok", id |-> st.food_id]

insert_food(db, food, failAt, now) ==
    IF failAt.at = "exists" THEN [db |-> db, res |-> "err", id |-> 0]
    ELSE IF food_exists_by_description(db, food.description)
    THEN [db |-> db, res |-> "exists", id |-> 0]
    ELSE IF failAt.at = "begin" THEN [db |-> db, res |-> "err", id |-> 0]
    ELSE LET st == RunTx(Begin(db, now), Stmts(food), 1, failAt.k, food)
         IN  IF st.failed \/ failAt.at = "commit"
             THEN [db |-> Rollback(db, st), res |-> "err", id |-> 0]
             ELSE [db |-> Commit(db, st), res |-> "ok", id |-> st.food_id]

(***************************************************************************)
(* The read queries                                                        *)
(***************************************************************************)
\* SELECT_FOOD_SQL_QUERY: the result row of foods row i, with the joined
\* image and source and the grouped tags, allergens and servings
SelectFoodRow(db, i) ==
    LET F == db.foods[i]
        TagOf(l) == db.tags[l[2]]
        AllergenOf(l) == db.allergens[l[2]]
        MyLink(l) == l[1] = i
        MyServing(r) == r.food_id = i
        tagLinks == SelectSeq(db.food_tags, MyLink)
        allergenLinks == SelectSeq(db.food_allergens, MyLink)
        servingRows == SelectSeq(db.food_servings, MyServing)
    IN  [id |-> i,
         slug |-> F.slug,
         description |-> F.description,
         verified |-> F.verified,
         energy |-> F.energy,
         image_url |-> db.food_images[F.image_id],
         source_description |-> db.food_sources[F.source_id],
         tags |-> [k \in 1..Len(tagLinks) |-> TagOf(tagLinks[k])],
         allergens |-> [k \in 1..Len(allergenLinks) |->
                            AllergenOf(allergenLinks[k])],
         servings |-> [k \in 1..Len(servingRows) |->
                          <<db.serving_descriptions[
                                servingRows[k].serving_description_id],
                            servingRows[k].weight>>]]

\* FromRow for Food: the struct decoded from a result row
FoodFromRow(row) ==
    [id |-> Some(row.id),
     slug |-> Some(row.slug),
     description |-> row.description,
     verified |-> Some(row.verified # 0),
     image_url |-> row.image_url,
     source |-> row.source_description,
     tags |-> row.tags,
     allergens |-> row.allergens,
     servings |-> row.servings,
     energy |-> row.energy]

\* the ids of the rows of foods, in rowid order
FoodIds(db) == [i \in 1..Len(db.foods) |-> i]

\* the rows of foods with these ids (those a WHERE clause kept), decoded
SelectRows(db, ids) ==
    [k \in 1..Len(ids) |-> FoodFromRow(SelectFoodRow(db, ids[k]))]

\* select_food_by_slug: fetch_one, an error (None) when no row matches
select_food_by_slug(db, slug) ==
    LET Where(i) == db.foods[i].slug = slug
        rows == SelectRows(db, SelectSeq(FoodIds(db), Where))
    IN  IF rows = <<>> THEN None ELSE Some(rows[1])

\* select_all_foods_slugs: SELECT slug FROM foods WHERE verified=1
select_all_foods_slugs(db) ==
    LET IsVerified(F) == F.verified = 1
        rows == SelectSeq(db.foods, IsVerified)
    IN  [k \in 1..Len(rows) |-> rows[k].slug]

\* select_all_tags: SELECT description FROM tags
select_all_tags(db) == db.tags

\* SQLite's LIKE: % matches any run, _ one character, letters compare
\* case-insensitively for ASCII only
RECURSIVE Like(_, _)
Like(s, pat) ==
    IF pat = <<>> THEN s = <<>>
    ELSE IF Head(pat) = "%"
         THEN Like(s, Tail(pat)) \/ (s # <<>> /\ Like(Tail(s), pat))
    ELSE IF s = <<>> THEN FALSE
    ELSE (Head(pat) = "_" \/ SqlLowerChar(Head(pat)) = SqlLowerChar(Head(s)))
             /\ Like(Tail(s), Tail(pat))

\* search_foods_by_description_wild: WHERE F.description LIKE '%q%'
search_foods_by_description_wild(db, description) ==
    LET Where(i) == Like(db.foods[i].description,
                         <<"%">> \o description \o <<"%">>)
    IN  SelectRows(db, SelectSeq(FoodIds(db), Where))

\* search_foods_by_tag_wild: WHERE EXISTS (a linked tag LIKE '%q%')
search_foods_by_tag_wild(db, tag) ==
    LET Where(i) ==
            \E k \in 1..Len(db.food_tags) :
                /\ db.food_tags[k][1] = i
                /\ Like(db.tags[db.food_tags[k][2]],
                        <<"%">> \o tag \o <<"%">>)
    IN  SelectRows(db, SelectSeq(FoodIds(db), Where))

(***************************************************************************)
(* The ranker                                                              *)
(***************************************************************************)
PrefixScore == 20

\* the closure with its last return dropping the food
ScoreEntry_DropUnmatched(idx, food, query) ==
    LET desc_lower == to_lowercase(food.description)
    IN  IF starts_with(desc_lower, query)
        THEN Some([idx |-> idx, food |-> food, score |-> PrefixScore])
        ELSE IF contains(desc_lower, query)
        THEN LET pos == find(desc_lower, query)
                 l == len(desc_lower)
             IN  Some([idx |-> idx, food |-> food,
                       score |-> (10 * (IF l >= pos THEN l - pos ELSE 0))
                                     \div (IF l >= 1 THEN l ELSE 1)])
        ELSE None

\* the closure of filter_map: the (idx, food, score) entry of one food;
\* query is already lowercased
ScoreEntry(idx, food, query) ==
    LET desc_lower == to_lowercase(food.description)
    IN  IF starts_with(desc_lower, query)
        THEN Some([idx |-> idx, food |-> food, score |-> PrefixScore])
        ELSE IF contains(desc_lower, query)
        THEN LET pos == find(desc_lower, query)
                 l == len(desc_lower)
             IN  Some([idx |-> idx, food |-> food,
                       score |-> (10 * (IF l >= pos THEN l - pos ELSE 0))
                                     \div (IF l >= 1 THEN l ELSE 1)])
        ELSE Some([idx |-> idx, food |-> food, score |-> 0])

\* foods.drain(..).enumerate().filter_map(..).collect()
RECURSIVE Scored(_, _, _)
Scored(foods, query, idx) ==
    IF idx > Len(foods) THEN <<>>
    ELSE ScoreEntry(idx - 1, foods[idx], query) \o Scored(foods, query, idx + 1)

\* the comparator with its operands swapped: a.2.cmp(&b.2)
InOrder_Ascending(a, b) == a.score <= b.score

\* the comparator of sort_unstable_by: b.2.cmp(&a.2), descending by score
InOrder(a, b) == a.score >= b.score

\* sort_unstable_by: any arrangement the comparator accepts; the order of
\* equal elements is unspecified
SortUnstableBy(scored) ==
    LET n == Len(scored)
    IN  {[k \in 1..n |-> scored[p[k]]] :
            p \in {q \in Permutations(1..n) :
                      \A a, b \in 1..n :
                          a < b => InOrder(scored[q[a]], scored[q[b]])}}

\* the ranker comparing with the query as it was typed
sort_foods_by_query_CaseSensitive(foods, query) ==
    {[k \in 1..Len(sorted) |-> sorted[k].food] :
        sorted \in SortUnstableBy(Scored(foods, query, 1))}

\* sort_foods_by_query: the lists the call can leave in foods
sort_foods_by_query(foods, query) ==
    {[k \in 1..Len(sorted) |-> sorted[k].food] :
        sorted \in SortUnstableBy(Scored(foods, to_lowercase(query), 1))}


(***************************************************************************)
(* Configuration and the limits fixed in the handlers                      *)
(***************************************************************************)
SearchMaxLimit == 5

static_url == <<"h">>

DefaultLimit == 5

MaxSlugLen == 100

MaxParamsSize == 96

\* size_of::<SearchParams>(): String + Option<String> + Option<u64>
StaticParamsSize == 64

ModeDescription == <<"d", "e", "s", "c", "r", "i", "p", "t", "i", "o", "n">>

\* variant: the match arm names another string
ModeName_Typo == <<"n", "a", "m">>

ModeName == <<"n", "a", "m", "e">>

ModeTag == <<"t", "a", "g">>

(***************************************************************************)
(* The handlers of foods.rs                                                *)
(***************************************************************************)
BadPatterns ==
    { <<".", ".">>, <<"/">>, <<"\\">>, <<"NUL">>, <<";">>, <<"*">>,
      <<"-", "-">>, <<"/", "*">>, <<"*", "/">>, <<"'">>, <<"\"">> }

IsWhitespace(c) == c = " "

\* variant: the s.trim().is_empty() operand is missing
sanitize_input_NoTrim(s) == ~ (\E p \in BadPatterns : contains(s, p))

\* sanitize_input: TRUE when the input is accepted
sanitize_input(s) ==
    ~ ( (\E p \in BadPatterns : contains(s, p))
        \/ (\A i \in 1..Len(s) : IsWhitespace(s[i])) )

\* fix_image_url / the closure of fix_image_urls
fix_image_url(food) ==
    IF starts_with(food.image_url, <<"/">>)
    THEN [food EXCEPT !.image_url = static_url \o @]
    ELSE food

fix_image_urls(foods) == [k \in 1..Len(foods) |-> fix_image_url(foods[k])]

NoRequest == [slug |-> <<>>, q |-> <<>>, mode |-> None, limit |-> None,
              store_error |-> FALSE]

\* reads: the store queries the handler made before it answered
Response(ep, status, req) ==
    [ep |-> ep, status |-> status, req |-> req,
     foods |-> <<>>, slugs |-> {}, tags |-> <<>>, reads |-> 0]

\* the response of a handler that has queried the store
AfterRead(r) == [r EXCEPT !.reads = 1]

NoResponse == Response("none", 0, NoRequest)

\* variant: food.verified.is_some()
IsSomeAndTrue_IsSome(o) == o # None

\* food.verified.is_some_and(|verified| verified)
IsSomeAndTrue(o) == o # None /\ o[1]

\* GET /food/{slug}; store_error: the store read fails
food(db, slug, store_error) ==
    LET req == [NoRequest EXCEPT !.slug = slug, !.store_error = store_error]
    IN  IF len(slug) = 0 \/ len(slug) > MaxSlugLen
        THEN Response("food", 400, req)
        ELSE IF ~ sanitize_input(slug) THEN Response("food", 400, req)
        ELSE LET found == IF store_error THEN None
                          ELSE select_food_by_slug(db, slug)
             IN  IF found = None
                 THEN AfterRead(Response("food", 404, req))
                 ELSE LET fixed == fix_image_url(found[1])
                      IN  IF IsSomeAndTrue(fixed.verified)
                          THEN [AfterRead(Response("food", 200, req))
                                    EXCEPT !.foods = <<fixed>>]
                          ELSE AfterRead(Response("food", 403, req))

\* GET /foods/list: a BTreeMap keyed by slug
foods_list(db, store_error) ==
    LET req == [NoRequest EXCEPT !.store_error = store_error]
    IN  IF store_error THEN AfterRead(Response("foods_list", 500, req))
        ELSE [AfterRead(Response("foods_list", 200, req))
                  EXCEPT !.slugs = Range(select_all_foods_slugs(db))]

\* variant: a failed query is answered as an empty list (unwrap_or_default)
tags_list_EmptyOnError(db, store_error) ==
    LET req == [NoRequest EXCEPT !.store_error = store_error]
    IN  IF store_error THEN AfterRead(Response("tags", 200, req))
        ELSE [AfterRead(Response("tags", 200, req))
                  EXCEPT !.tags = select_all_tags(db)]

\* GET /tags
tags_list(db, store_error) ==
    LET req == [NoRequest EXCEPT !.store_error = store_error]
    IN  IF store_error THEN AfterRead(Response("tags", 500, req))
        ELSE [AfterRead(Response("tags", 200, req))
                  EXCEPT !.tags = select_all_tags(db)]

\* SearchParams::size
size(q, mode) ==
    StaticParamsSize + len(q) + (IF mode = None THEN 0 ELSE len(mode[1]))

\* variant: the retain call is missing
RetainVerified_KeepAll(foods) == foods

\* foods.retain(|food| food.verified.unwrap_or(false))
RetainVerified(foods) ==
    LET Keep(f) == unwrap_or(f.verified, FALSE)
    IN  SelectSeq(foods, Keep)

\* variant: the list is cut one place late
truncate_OneLate(foods, limit) ==
    SubSeq(foods, 1, IF limit + 1 < Len(foods) THEN limit + 1 ELSE Len(foods))

\* foods.truncate(limit)
truncate(foods, limit) ==
    SubSeq(foods, 1, IF limit < Len(foods) THEN limit ELSE Len(foods))

\* variant: the list is truncated right after the store read, before it is
\* ranked and before the unverified foods are removed
foods_search_TruncateFirst(db, q, mode, limit, store_error) ==
    LET req == [NoRequest EXCEPT !.q = q, !.mode = mode, !.limit = limit,
                                 !.store_error = store_error]
        m == IF mode = None THEN ModeDescription ELSE to_lowercase(mode[1])
        lim == unwrap_or(limit, DefaultLimit)
        Finish(foods) ==
            [AfterRead(Response("foods_search", 200, req))
                 EXCEPT !.foods = fix_image_urls(RetainVerified(foods))]
    IN  IF size(q, mode) > MaxParamsSize
        THEN {Response("foods_search", 400, req)}
        ELSE IF lim > SearchMaxLimit
        THEN {Response("foods_search", 400, req)}
        ELSE IF ~ sanitize_input(q)
        THEN {Response("foods_search", 400, req)}
        ELSE IF m \in {ModeDescription, ModeName}
        THEN IF store_error
             THEN {AfterRead(Response("foods_search", 404, req))}
             ELSE {Finish(sorted) :
                      sorted \in sort_foods_by_query(
                          truncate(search_foods_by_description_wild(db, q),
                                   lim), q)}
        ELSE IF m = ModeTag
        THEN IF store_error
             THEN {AfterRead(Response("foods_search", 404, req))}
             ELSE {Finish(truncate(search_foods_by_tag_wild(db, q), lim))}
        ELSE {Response("foods_search", 400, req)}

\* GET /foods/search: the responses the handler can give (the ranker's
\* sort leaves the order of equal scores open)
foods_search(db, q, mode, limit, store_error) ==
    LET req == [NoRequest EXCEPT !.q = q, !.mode = mode, !.limit = limit,
                                 !.store_error = store_error]
        m == IF mode = None THEN ModeDescription ELSE to_lowercase(mode[1])
        lim == unwrap_or(limit, DefaultLimit)
        Finish(foods) ==
            [AfterRead(Response("foods_search", 200, req))
                 EXCEPT !.foods =
                     fix_image_urls(truncate(RetainVerified(foods), lim))]
    IN  IF size(q, mode) > MaxParamsSize
        THEN {Response("foods_search", 400, req)}
        ELSE IF lim > SearchMaxLimit
        THEN {Response("foods_search", 400, req)}
        ELSE IF ~ sanitize_input(q)
        THEN {Response("foods_search", 400, req)}
        ELSE IF m \in {ModeDescription, ModeName}
        THEN IF store_error
             THEN {AfterRead(Response("foods_search", 404, req))}
             ELSE {Finish(sorted) :
                      sorted \in sort_foods_by_query(
                                     search_foods_by_description_wild(db, q), q)}
        ELSE IF m = ModeTag
        THEN IF store_error
             THEN {AfterRead(Response("foods_search", 404, req))}
             ELSE {Finish(search_foods_by_tag_wild(db, q))}
        ELSE {Response("foods_search", 400, req)}


(***************************************************************************)
(* Inputs: the seed records of the JSON files and the requests             *)
(***************************************************************************)
\* the fields of a seed record besides its description: tags and allergens
\* that repeat in two casings (ASCII and non-ASCII), a relative and an
\* absolute image URL, verified omitted and false, a slug that is not the
\* derived one
BundleA ==
    [slug |-> Some(<<"x">>), verified |-> None,
     image_url |-> <<"/", "a">>, source |-> <<"s", "1">>,
     tags |-> << <<"M">>, <<"m">> >>, allergens |-> << <<"Sc">> >>,
     servings |-> << << <<"P">>, 100 >> >>, energy |-> 52]

BundleB ==
    [slug |-> None, verified |-> Some(FALSE),
     image_url |-> <<"e">>, source |-> <<"s", "2">>,
     tags |-> << <<"Sc">>, <<"sc">>, <<"m">> >>,
     allergens |-> << <<"S">>, <<"s">> >>,
     servings |-> << << <<"P">>, 50 >>, << <<"p">>, 100 >> >>,
     energy |-> 89]

SeedRecord(d, b) ==
    [description |-> d, slug |-> b.slug, verified |-> b.verified,
     image_url |-> b.image_url, source |-> b.source, tags |-> b.tags,
     allergens |-> b.allergens, servings |-> b.servings,
     energy |-> b.energy]

\* "Ka" and "ka" derive the same slug "ka"; "a k" derives "a-k"; "Ka"
\* comes with two different sets of values
SeedRecords ==
    { SeedRecord(<<"K", "a">>, BundleA), SeedRecord(<<"K", "a">>, BundleB),
      SeedRecord(<<"k", "a">>, BundleB), SeedRecord(<<"a", " ", "k">>, BundleB),
      SeedRecord(<<"a", " ", "k">>, BundleA) }

SeedInputs == UNION {[1..n -> SeedRecords] : n \in 0..MaxSeed}

SlugInputs ==
    { <<"k", "a">>, <<"a", "-", "k">>, <<"x">>, <<>>, <<"k", "/", "a">>,
      [i \in 1..MaxSlugLen |-> "a"], [i \in 1..(MaxSlugLen + 1) |-> "a"] }

\* the search requests: [q, mode, limit, store_error]
SearchInputs ==
    { [q |-> q, mode |-> m, limit |-> l, store_error |-> FALSE] :
        q \in { <<"k">>, <<"K", "a">>, <<"m">> },
        m \in { None, Some(ModeName), Some(<<"T", "a", "g">>) },
        l \in { None, Some(1) } }
    \cup
    { [q |-> <<"'">>, mode |-> None, limit |-> None, store_error |-> FALSE],
      [q |-> <<"k">>, mode |-> Some(<<"x">>), limit |-> None,
       store_error |-> FALSE],
      [q |-> <<"k">>, mode |-> None, limit |-> Some(SearchMaxLimit + 1),
       store_error |-> FALSE],
      [q |-> <<"k">>, mode |-> None, limit |-> Some(0), store_error |-> FALSE],
      [q |-> <<"k">>, mode |-> None, limit |-> None, store_error |-> TRUE],
      [q |-> <<"k">>, mode |-> Some(ModeTag), limit |-> None,
       store_error |-> TRUE],
      [q |-> [i \in 1..(MaxParamsSize - StaticParamsSize - 10) |-> "a"],
       mode |-> Some(ModeName), limit |-> None, store_error |-> FALSE] }

(***************************************************************************)
(* State                                                                   *)
(***************************************************************************)
VARIABLES
    seedInput,   \* the records load_foods_from_jsons returns
    db,          \* the committed content of db/foods.sqlite
    phase,       \* "seeding" (connect_database runs), "seeded" (it has
                 \* returned the pool), "serving" (the listener is bound)
    run,         \* how many times the process has been started
    seedIdx,     \* the seeder's position in seedInput
    seedLog,     \* the outcome of each insert_food call of this seed run
    lastCall,    \* the last insert_food call of this seed run
    faults,      \* the store and file errors injected into the seed runs so far
    snap,        \* the store at the end of the previous seed run
    resp,        \* the response to the last request
    rankFoods,   \* the ranker's input list
    rankQuery,   \* the ranker's query
    rankOut,     \* the ranker's output, None before the call
    healthOut,   \* the answer of the last health request
    clock,       \* the time, in steps of TickMinutes
    cache,       \* the response cache: what is stored under each URL
    quota,       \* the rate limiter: requests counted per client IP in the
                 \* current window
    served,      \* what the router did with the last request
    calls,       \* the insert_food calls in flight: position and transaction
    tasks,       \* the request handlers in flight: position in their code
    api_db,      \* the store-pool mutex: its owner and its waiters
    config       \* the config mutex: its owner and its waiters

vars == <<seedInput, db, phase, run, seedIdx, seedLog, lastCall, faults,
          snap, resp, rankFoods, rankQuery, rankOut, healthOut, clock,
          cache, quota, served, calls, tasks, api_db, config>>

rankVars == <<rankFoods, rankQuery, rankOut>>

\* the state of the router, of the calls and of the tasks
extVars ==
    <<healthOut, clock, cache, quota, served, calls, tasks, api_db, config>>

\* the state of the seeder, the handlers and the ranker, without the store
coreVars == <<seedInput, phase, run, seedIdx, seedLog, lastCall, faults,
              snap, resp, rankVars>>

\* no health request has been answered
NoHealth == [code |-> 0]

\* no request has gone through the router
NoServed == [status |-> 0]

\* the request URLs: one a handler answers with 200, one it answers with 404
Urls == {"/tags", "/food/x"}

\* the reverse proxy's address
IpProxy == <<"P">>

\* the addresses the rate limiter counts under: the one the reverse proxy
\* appends to X-Forwarded-For, and the reverse proxy's own
Ips == {<<"B">>, IpProxy}

\* a mutex nobody holds and nobody waits for
Unlocked == [owner |-> 0, waiters |-> <<>>]

\* nothing outside the seeder and the handlers has happened
ExtInit ==
    /\ healthOut = NoHealth
    /\ clock = 0
    /\ cache = [u \in Urls |-> None]
    /\ quota = [k \in Ips |-> 0]
    /\ served = NoServed
    /\ calls = <<>>
    /\ tasks = <<>>
    /\ api_db = Unlocked
    /\ config = Unlocked

NoCall == [idx |-> 0, failAt |-> [at |-> "none", k |-> 0], res |-> "none",
           before |-> EmptyDb]

Init ==
    /\ seedInput \in SeedInputs
    /\ db = EmptyDb
    /\ phase = "seeding"
    /\ run = 1
    /\ seedIdx = 1
    /\ seedLog = <<>>
    /\ lastCall = NoCall
    /\ faults = 0
    /\ snap = EmptyDb
    /\ resp = NoResponse
    /\ rankFoods = <<>>
    /\ rankQuery = <<>>
    /\ rankOut = None
    /\ ExtInit

(***************************************************************************)
(* connect_database: the seed loop, one insert_food call per step          *)
(***************************************************************************)
\* variant: the error is propagated with ?, the loop ends
AfterError_Abort(idx, n) == n + 1

\* Err(e) => warn!(..): the loop goes on with the next record
AfterError(idx, n) == idx + 1

SeedInsert ==
    /\ phase = "seeding"
    /\ seedIdx <= Len(seedInput)
    /\ \E failAt \in FailPoints(seedInput[seedIdx]) :
          LET r == insert_food(db, seedInput[seedIdx], failAt, run)
          IN  /\ db' = r.db
              /\ seedLog' = Append(seedLog, r.res)
              /\ lastCall' = [idx |-> seedIdx, failAt |-> failAt,
                              res |-> r.res, before |-> db]
              /\ failAt.at # "none" => faults < MaxFaults
              /\ faults' = IF failAt.at = "none" THEN faults ELSE faults + 1
              /\ seedIdx' = IF r.res = "ok" THEN seedIdx + 1
                            ELSE AfterError(seedIdx, Len(seedInput))
    /\ UNCHANGED <<seedInput, phase, run, snap, resp, rankVars, extVars>>

\* load_foods_from_jsons fails (read_dir): no record is inserted
SeedLoadFails ==
    /\ phase = "seeding"
    /\ seedIdx = 1
    /\ faults < MaxFaults
    /\ phase' = "seeded"
    /\ faults' = faults + 1
    /\ UNCHANGED <<seedInput, db, run, seedIdx, seedLog, lastCall, snap,
                   resp, rankVars, extVars>>

\* the loop is over: Ok(pool)
SeedReturn ==
    /\ phase = "seeding"
    /\ seedIdx > Len(seedInput)
    /\ phase' = "seeded"
    /\ UNCHANGED <<seedInput, db, run, seedIdx, seedLog, lastCall, faults,
                   snap, resp, rankVars, extVars>>

\* variant: connect_database is spawned as a task and the listener is bound
\* without waiting for it
Serve_DuringSeed ==
    /\ phase \in {"seeding", "seeded"}
    /\ phase' = "serving"
    /\ snap' = db
    /\ seedLog' = <<>>
    /\ lastCall' = NoCall
    /\ seedIdx' = 1
    /\ UNCHANGED <<seedInput, db, run, faults, resp, rankVars, extVars>>

\* main: the router is built and the listener is bound
Serve ==
    /\ phase = "seeded"
    /\ phase' = "serving"
    /\ snap' = db
    /\ seedLog' = <<>>
    /\ lastCall' = NoCall
    /\ seedIdx' = 1
    /\ UNCHANGED <<seedInput, db, run, faults, resp, rankVars, extVars>>

\* the process is stopped and started again over the same seed directory
Restart ==
    /\ phase = "serving"
    /\ resp = NoResponse
    /\ run < MaxRuns
    /\ run' = run + 1
    /\ phase' = "seeding"
    /\ UNCHANGED <<seedInput, db, seedIdx, seedLog, lastCall, faults, snap,
                   resp, rankVars, extVars>>

(***************************************************************************)
(* Requests                                                                *)
(***************************************************************************)
Unserved == <<seedInput, db, phase, run, seedIdx, seedLog, lastCall, faults,
              snap, rankVars, extVars>>

GetFood ==
    /\ phase = "serving"
    /\ resp = NoResponse
    /\ \E slug \in SlugInputs, e \in BOOLEAN :
          /\ e => slug = <<"k", "a">>
          /\ resp' = food(db, slug, e)
    /\ UNCHANGED Unserved

GetFoodsList ==
    /\ phase = "serving"
    /\ resp = NoResponse
    /\ \E e \in BOOLEAN : resp' = foods_list(db, e)
    /\ UNCHANGED Unserved

GetTags ==
    /\ phase = "serving"
    /\ resp = NoResponse
    /\ \E e \in BOOLEAN : resp' = tags_list(db, e)
    /\ UNCHANGED Unserved

GetFoodsSearch ==
    /\ phase = "serving"
    /\ resp = NoResponse
    /\ \E r \in SearchInputs :
          resp' \in foods_search(db, r.q, r.mode, r.limit, r.store_error)
    /\ UNCHANGED Unserved

\* the response has been sent; the handler's frame is gone
Send ==
    /\ phase = "serving"
    /\ resp # NoResponse
    /\ resp' = NoResponse
    /\ UNCHANGED Unserved

Next ==
    \/ SeedInsert
    \/ SeedLoadFails
    \/ SeedReturn
    \/ Serve
    \/ Restart
    \/ GetFood
    \/ GetFoodsList
    \/ GetTags
    \/ GetFoodsSearch
    \/ Send

Spec == Init /\ [][Next]_vars

(***************************************************************************)
(* A catalog of four foods, seeded in any order, and searches for "kar"    *)
(***************************************************************************)
Karpuz == <<"K", "a", "r", "p", "u", "z">>

Portakal == <<"P", "o", "r", "t", "a", "k", "a", "l">>

Makarna == <<"M", "a", "k", "a", "r", "n", "a">>

Elma == <<"E", "l", "m", "a">>

CatalogRecord(d) ==
    [description |-> d, slug |-> None, verified |-> Some(TRUE),
     image_url |-> <<"e">>, source |-> <<"s", "1">>, tags |-> <<>>,
     allergens |-> <<>>, servings |-> <<>>, energy |-> 30]

CatalogInputs ==
    {[i \in 1..4 |-> CatalogRecord(ds[i])] :
        ds \in {x \in [1..4 -> {Karpuz, Portakal, Makarna, Elma}] :
                  \A i, j \in 1..4 : x[i] = x[j] => i = j}}

CatalogSearches ==
    { [q |-> q, mode |-> None, limit |-> l, store_error |-> FALSE] :
        q \in { <<"k", "a", "r">>, <<"K", "A", "R">>, <<"a">> },
        l \in { None, Some(1) } }

InitCatalog ==
    /\ seedInput \in CatalogInputs
    /\ db = EmptyDb
    /\ phase = "seeding"
    /\ run = 1
    /\ seedIdx = 1
    /\ seedLog = <<>>
    /\ lastCall = NoCall
    /\ faults = 0
    /\ snap = EmptyDb
    /\ resp = NoResponse
    /\ rankFoods = <<>>
    /\ rankQuery = <<>>
    /\ rankOut = None
    /\ ExtInit

GetFoodsSearchCatalog ==
    /\ phase = "serving"
    /\ resp = NoResponse
    /\ \E r \in CatalogSearches :
          resp' \in foods_search(db, r.q, r.mode, r.limit, r.store_error)
    /\ UNCHANGED Unserved

NextCatalog ==
    \/ SeedInsert
    \/ SeedReturn
    \/ Serve
    \/ GetFoodsSearchCatalog
    \/ Send

SpecCatalog == InitCatalog /\ [][NextCatalog]_vars

(***************************************************************************)
(* The request checks: the handlers over every short string of the         *)
(* characters the sanitizer looks for, and over strings at the length      *)
(* limits, with an empty store                                             *)
(***************************************************************************)
InputAlphabet ==
    {"a", " ", ".", "/", "\\", "NUL", ";", "*", "-", "'", "\""}

InputStrings ==
    UNION {[1..m -> InputAlphabet] : m \in 0..MaxInputLen}
        \cup { <<"'", " ", "O", "R", " ", "1", "=", "1", " ", "-", "-">> }

\* slugs at the length limit: of one-byte and of two-byte letters
LimitSlugs ==
    {[i \in 1..n |-> "a"] :
        n \in {MaxSlugLen - 1, MaxSlugLen, MaxSlugLen + 1}}
        \cup {[i \in 1..n |-> "sc"] :
                 n \in {MaxSlugLen \div 2, MaxSlugLen \div 2 + 1}}

\* queries around the sizes at which size() and the request line reach
\* MaxParamsSize, alone and together with mode=tag
LimitQueries ==
    {[i \in 1..n |-> "a"] :
        n \in {MaxParamsSize - StaticParamsSize - 3,
               MaxParamsSize - StaticParamsSize - 2,
               MaxParamsSize - StaticParamsSize,
               MaxParamsSize - StaticParamsSize + 1,
               MaxParamsSize - 2, MaxParamsSize - 1}}

InitInput ==
    /\ seedInput = <<>>
    /\ db = EmptyDb
    /\ phase = "serving"
    /\ run = 1
    /\ seedIdx = 1
    /\ seedLog = <<>>
    /\ lastCall = NoCall
    /\ faults = 0
    /\ snap = EmptyDb
    /\ resp = NoResponse
    /\ rankFoods = <<>>
    /\ rankQuery = <<>>
    /\ rankOut = None
    /\ ExtInit

GetFoodInput ==
    /\ phase = "serving"
    /\ resp = NoResponse
    /\ \E slug \in InputStrings \cup LimitSlugs, e \in BOOLEAN :
          resp' = food(db, slug, e)
    /\ UNCHANGED Unserved

GetFoodsSearchInput ==
    /\ phase = "serving"
    /\ resp = NoResponse
    /\ \E q \in InputStrings \cup LimitQueries, e \in BOOLEAN,
          mode \in {None, Some(ModeTag)} :
          resp' \in foods_search(db, q, mode, None, e)
    /\ UNCHANGED Unserved

NextInput ==
    \/ GetFoodInput
    \/ GetFoodsSearchInput
    \/ Send

SpecInput == InitInput /\ [][NextInput]_vars

(***************************************************************************)
(* The ranker on its own: every short list and query over a small alphabet *)
(***************************************************************************)
RankAlphabet == {"k", "K", "a"}

StringsUpTo(n) == UNION {[1..m -> RankAlphabet] : m \in 0..n}

\* descriptions: a capital only in front, one that starts with a two-byte
\* letter, and a longer one with the letter k in the middle
RankDescriptions ==
    {d \in StringsUpTo(MaxDescLen) : \A i \in 2..Len(d) : d[i] # "K"}
        \cup {<<"Sc", "k">>, <<"a", "a", "k", "a", "a">>}

RankQueries == StringsUpTo(MaxDescLen)

RankLists ==
    UNION { {[i \in 1..n |-> [id |-> i, description |-> ds[i]]] :
                ds \in [1..n -> RankDescriptions]} : n \in 0..MaxFoods }

InitRank ==
    /\ seedInput = <<>>
    /\ db = EmptyDb
    /\ phase = "rank"
    /\ run = 1
    /\ seedIdx = 1
    /\ seedLog = <<>>
    /\ lastCall = NoCall
    /\ faults = 0
    /\ snap = EmptyDb
    /\ resp = NoResponse
    /\ rankFoods \in RankLists
    /\ rankQuery \in RankQueries
    /\ rankOut = None
    /\ ExtInit

SortFoodsByQuery ==
    /\ phase = "rank"
    /\ rankOut = None
    /\ \E out \in sort_foods_by_query(rankFoods, rankQuery) :
          rankOut' = Some(out)
    /\ UNCHANGED <<seedInput, db, phase, run, seedIdx, seedLog, lastCall,
                   faults, snap, resp, rankFoods, rankQuery, extVars>>

NextRank == SortFoodsByQuery

SpecRank == InitRank /\ [][NextRank]_vars


(***************************************************************************)
(* The health handler                                                      *)
(***************************************************************************)
MaxUrls == 3

\* the for loop of check_internet from URL i on, each URL given by what a
\* GET of it ends in within the 3 seconds; is_success is a 2xx; the result,
\* and how many URLs have been sent a request
RECURSIVE ProbeFrom(_, _)
ProbeFrom(urls, i) ==
    IF i > Len(urls) THEN [ok |-> FALSE, probes |-> Len(urls)]
    ELSE IF urls[i] = "2xx" THEN [ok |-> TRUE, probes |-> i]
    ELSE ProbeFrom(urls, i + 1)

\* check_internet: false when the client cannot be built
check_internet(client_ok, urls) ==
    IF ~client_ok THEN [ok |-> FALSE, probes |-> 0] ELSE ProbeFrom(urls, 1)

\* check_database: fetch_one of SELECT 1 is Ok
check_database(select1) == select1 = "row"

\* variant: healthy as soon as one of the two checks passes
health_EitherCheck(client_ok, urls, select1) ==
    LET net == check_internet(client_ok, urls)
        is_database_functional == check_database(select1)
    IN  [code |-> 200,
         status |-> IF net.ok \/ is_database_functional
                    THEN "healthy" ELSE "unhealthy",
         internet_connection |-> net.ok,
         database_functionality |-> is_database_functional,
         probes |-> net.probes,
         client_ok |-> client_ok, urls |-> urls, select1 |-> select1]

\* health: always Json(health), that is status code 200
health(client_ok, urls, select1) ==
    LET net == check_internet(client_ok, urls)
        is_database_functional == check_database(select1)
    IN  [code |-> 200,
         status |-> IF net.ok /\ is_database_functional
                    THEN "healthy" ELSE "unhealthy",
         internet_connection |-> net.ok,
         database_functionality |-> is_database_functional,
         probes |-> net.probes,
         client_ok |-> client_ok, urls |-> urls, select1 |-> select1]

\* a health request over the configured URLs, each "2xx", "404" or
\* "timeout"
GetHealth ==
    /\ phase = "serving"
    /\ \E client_ok \in BOOLEAN, n \in 0..MaxUrls,
          select1 \in {"row", "error"} :
          \E urls \in [1..n -> {"2xx", "404", "timeout"}] :
              healthOut' = health(client_ok, urls, select1)
    /\ UNCHANGED <<db, coreVars, clock, cache, quota, served, calls, tasks,
                   api_db, config>>

NextHealth == GetHealth

SpecHealth == InitInput /\ [][NextHealth]_vars

(***************************************************************************)
(* The router: a request goes through the layers, outermost first          *)
(***************************************************************************)
MaxClock == 3

\* one step of the clock
TickMinutes == 5

\* time_to_live(Duration::from_secs(10 * 60))
TtlMinutes == 10

\* RuleConfig::new(Duration::Seconds(1), 5)
RateLimit == 5

\* the X-Forwarded-For header of a request: absent, one value, or the value
\* the client sent followed by the one the reverse proxy appended
XffHeaders == { None, Some(<<"B">>), Some(<<"A", ",", " ", "B">>) }

\* str::split(","): the pieces between the commas, at least one
RECURSIVE split(_, _)
split(s, sep) ==
    IF \A i \in 1..Len(s) : s[i] # sep THEN <<s>>
    ELSE LET k == CHOOSE i \in 1..Len(s) :
                      s[i] = sep /\ \A j \in 1..(i - 1) : s[j] # sep
         IN  <<SubSeq(s, 1, k - 1)>> \o split(SubSeq(s, k + 1, Len(s)), sep)

\* str::trim: without the whitespace at both ends
RECURSIVE trim(_)
trim(s) ==
    IF s = <<>> THEN s
    ELSE IF IsWhitespace(Head(s)) THEN trim(Tail(s))
    ELSE IF IsWhitespace(s[Len(s)]) THEN trim(SubSeq(s, 1, Len(s) - 1))
    ELSE s

\* parse_client_ip: split(",").next(), trimmed; "proxy: <peer>" without
\* the header
parse_client_ip(proxy_addr, xff) ==
    IF xff = None THEN <<"p", "r", "o", "x", "y", ":", " ">> \o proxy_addr
    ELSE trim(split(xff[1], ",")[1])

\* ClientIpSource::RightmostXForwardedFor with RealIpLayer: the address the
\* rate limiter counts the request under
RealIp(peer, xff) ==
    IF xff = None THEN peer
    ELSE LET pieces == split(xff[1], ",") IN trim(pieces[Len(pieces)])

\* variant: time_to_idle, an entry lives 10 minutes from its last read
Live_Idle(entry, now) == (now - entry.read) * TickMinutes < TtlMinutes

\* time_to_live: an entry lives 10 minutes from the insert that wrote it
Live(entry, now) == (now - entry.written) * TickMinutes < TtlMinutes

\* variant: the cache layer is added after the rate limiter, outside it
api_router_CacheOutside ==
    << "utf8_header_middleware", "handle_axum_rejections", "HelmetLayer",
       "cache_middleware", "RealIpLayer", "GovernorLayer", "handler" >>

\* api_router: the layers from the outermost (added last) to the handler
api_router ==
    << "utf8_header_middleware", "handle_axum_rejections", "HelmetLayer",
       "RealIpLayer", "GovernorLayer", "cache_middleware", "handler" >>

\* a response as a layer hands it outwards, with the layers that ran and
\* the cache and the rate limiter state st it leaves
Reply(status, body, client_ip, st) ==
    [status |-> status, body |-> body, client_ip |-> client_ip,
     from_cache |-> FALSE, written |-> 0, charged |-> FALSE, key |-> None,
     charset |-> FALSE, json_errors |-> FALSE, helmet |-> FALSE,
     ran |-> <<>>, st |-> st]

\* cache_middleware, on the way out: a 200 of the inner service is stored
\* under the request URL
CacheInsert(r, url, now) ==
    IF r.status = 200
    THEN [r EXCEPT !.st.cache[url] =
                       Some([body |-> r.body, written |-> now, read |-> now])]
    ELSE r

\* layer i of layers called with req at time now. The handler answers
\* /tags with 200 and the other URL with 404; its body stands for the store
\* content read at that time. GovernorLayer answers 429 when the client has
\* used the window's budget, otherwise it counts the request and calls the
\* inner service.
RECURSIVE Call(_, _, _, _, _)
Call(layers, i, req, st, now) ==
    LET layer == layers[i]
        key == unwrap_or(req.real_ip, req.peer)
        entry == st.cache[req.url]
    IN  CASE layer = "handler" ->
               [Reply(IF req.url = "/tags" THEN 200 ELSE 404, now,
                      Some(parse_client_ip(req.peer, req.xff)), st)
                    EXCEPT !.ran = <<layer>>]
          [] layer = "utf8_header_middleware" ->
               [Call(layers, i + 1, req, st, now)
                    EXCEPT !.charset = TRUE, !.ran = <<layer>> \o @]
          [] layer = "handle_axum_rejections" ->
               [Call(layers, i + 1, req, st, now)
                    EXCEPT !.json_errors = TRUE, !.ran = <<layer>> \o @]
          [] layer = "HelmetLayer" ->
               [Call(layers, i + 1, req, st, now)
                    EXCEPT !.helmet = TRUE, !.ran = <<layer>> \o @]
          [] layer = "RealIpLayer" ->
               [Call(layers, i + 1,
                     [req EXCEPT !.real_ip = Some(RealIp(req.peer, req.xff))],
                     st, now)
                    EXCEPT !.ran = <<layer>> \o @]
          [] layer = "GovernorLayer" ->
               IF st.quota[key] < RateLimit
               THEN [Call(layers, i + 1, req,
                          [st EXCEPT !.quota[key] = @ + 1], now)
                         EXCEPT !.charged = TRUE, !.key = Some(key),
                                !.ran = <<layer>> \o @]
               ELSE [Reply(429, 0, None, st)
                         EXCEPT !.key = Some(key), !.ran = <<layer>>]
          [] layer = "cache_middleware" ->
               IF entry # None /\ Live(entry[1], now)
               THEN [Reply(200, entry[1].body, None,
                           [st EXCEPT !.cache[req.url] =
                                Some([entry[1] EXCEPT !.read = now])])
                         EXCEPT !.from_cache = TRUE,
                                !.written = entry[1].written,
                                !.ran = <<layer>>]
               ELSE [CacheInsert(Call(layers, i + 1, req, st, now),
                                 req.url, now)
                         EXCEPT !.ran = <<layer>> \o @]

\* one request through the router
Request ==
    /\ phase = "serving"
    /\ \E url \in Urls, xff \in XffHeaders :
          LET req == [url |-> url, peer |-> IpProxy, xff |-> xff,
                      real_ip |-> None]
              r == Call(api_router, 1, req,
                        [cache |-> cache, quota |-> quota], clock)
          IN  /\ cache' = r.st.cache
              /\ quota' = r.st.quota
              /\ served' = [status |-> r.status, body |-> r.body,
                            client_ip |-> r.client_ip,
                            from_cache |-> r.from_cache,
                            written |-> r.written, charged |-> r.charged,
                            key |-> r.key, charset |-> r.charset,
                            json_errors |-> r.json_errors,
                            helmet |-> r.helmet, ran |-> r.ran,
                            url |-> url, xff |-> xff, peer |-> IpProxy,
                            time |-> clock, entry_before |-> cache[url],
                            entry_after |-> r.st.cache[url],
                            quota_before |-> quota,
                            quota_after |-> r.st.quota]
    /\ UNCHANGED <<db, coreVars, healthOut, clock, calls, tasks, api_db,
                   config>>

\* the rate limiter's one-second window is over
WindowEnds ==
    /\ phase = "serving"
    /\ \E k \in Ips : quota[k] > 0
    /\ quota' = [k \in Ips |-> 0]
    /\ UNCHANGED <<db, coreVars, healthOut, clock, cache, served, calls,
                   tasks, api_db, config>>

\* TickMinutes go by
Tick ==
    /\ phase = "serving"
    /\ clock < MaxClock
    /\ clock' = clock + 1
    /\ quota' = [k \in Ips |-> 0]
    /\ UNCHANGED <<db, coreVars, healthOut, cache, served, calls, tasks,
                   api_db, config>>

NextRouter ==
    \/ Request
    \/ WindowEnds
    \/ Tick

SpecRouter == InitInput /\ [][NextRouter]_vars

(***************************************************************************)
(* insert_food called concurrently: each call is a task that gives way at  *)
(* its awaits; SQLite lets one connection write at a time                  *)
(***************************************************************************)
MaxCalls == 2

\* the connection that has written in its open transaction holds the
\* store's write lock until it commits or rolls back
WriteLocked == \E j \in 1..Len(calls) : calls[j].pc = "commit"

\* insert_food is called while other calls may be in flight
InsertStart ==
    /\ Len(calls) < MaxCalls
    /\ \E rec \in SeedRecords :
          calls' = Append(calls, [food |-> rec, pc |-> "exists",
                                  st |-> None, res |-> "none"])
    /\ UNCHANGED <<db, coreVars, healthOut, clock, cache, quota, served,
                   tasks, api_db, config>>

\* food_exists_by_description(pool, &food.description).await
InsertExists ==
    /\ \E i \in 1..Len(calls) :
          /\ calls[i].pc = "exists"
          /\ calls' =
                IF food_exists_by_description(db, calls[i].food.description)
                THEN [calls EXCEPT ![i].pc = "done", ![i].res = "exists"]
                ELSE [calls EXCEPT ![i].pc = "begin"]
    /\ UNCHANGED <<db, coreVars, healthOut, clock, cache, quota, served,
                   tasks, api_db, config>>

\* pool.begin().await
InsertBegin ==
    /\ \E i \in 1..Len(calls) :
          /\ calls[i].pc = "begin"
          /\ calls' = [calls EXCEPT ![i].pc = "statements"]
    /\ UNCHANGED <<db, coreVars, healthOut, clock, cache, quota, served,
                   tasks, api_db, config>>

\* the first statement finds the write lock taken and the busy timeout
\* runs out: the error is returned with ?
InsertBusy ==
    /\ \E i \in 1..Len(calls) :
          /\ calls[i].pc = "statements"
          /\ WriteLocked
          /\ calls' = [calls EXCEPT ![i].pc = "done", ![i].res = "busy"]
    /\ UNCHANGED <<db, coreVars, healthOut, clock, cache, quota, served,
                   tasks, api_db, config>>

\* the statements of the transaction, from the first insert (which takes
\* the write lock) to the last; a failing statement returns with ?, tx is
\* dropped
InsertStatements ==
    /\ \E i \in 1..Len(calls) :
          /\ calls[i].pc = "statements"
          /\ ~WriteLocked
          /\ LET st == RunTx(Begin(db, run), Stmts(calls[i].food), 1, 0,
                            calls[i].food)
             IN  IF st.failed
                 THEN /\ calls' = [calls EXCEPT ![i].pc = "done",
                                                ![i].res = "err"]
                      /\ db' = Rollback(db, st)
                 ELSE /\ calls' = [calls EXCEPT ![i].pc = "commit",
                                                ![i].st = Some(st)]
                      /\ db' = db
    /\ UNCHANGED <<coreVars, healthOut, clock, cache, quota, served, tasks,
                   api_db, config>>

\* tx.commit().await
InsertCommit ==
    /\ \E i \in 1..Len(calls) :
          /\ calls[i].pc = "commit"
          /\ db' = Commit(db, calls[i].st[1])
          /\ calls' = [calls EXCEPT ![i].pc = "done", ![i].res = "ok",
                                    ![i].st = None]
    /\ UNCHANGED <<coreVars, healthOut, clock, cache, quota, served, tasks,
                   api_db, config>>

NextCalls ==
    \/ InsertStart
    \/ InsertExists
    \/ InsertBegin
    \/ InsertBusy
    \/ InsertStatements
    \/ InsertCommit

SpecCalls == InitInput /\ [][NextCalls]_vars

(***************************************************************************)
(* The handlers as tasks: what each locks, awaits and unlocks, in order.   *)
(* A guard is unlocked where it is dropped: at the end of the statement    *)
(* for a temporary, at the end of the block for one a let binding borrows  *)
(* from.                                                                   *)
(***************************************************************************)
MaxTasks == 2

\* endpoints: the base URL is copied with to_owned, the guard is a temporary
EndpointsSteps == <<"lock_config", "unlock_config", "return">>

\* foods: as endpoints
FoodsSteps == <<"lock_config", "unlock_config", "return">>

\* food: the store guard is a temporary of the select statement; then
\* fix_image_url borrows static_url from the config guard and awaits nothing
FoodSteps ==
    <<"lock_db", "store", "unlock_db", "lock_config", "unlock_config",
      "return">>

\* foods_list: the store guard is a temporary of the select statement; the
\* config guard lives to the end of the function, which awaits nothing more
FoodsListSteps ==
    <<"lock_db", "store", "unlock_db", "lock_config", "unlock_config",
      "return">>

\* tags_list
TagsListSteps == <<"lock_db", "store", "unlock_db", "return">>

\* variant: the config guard of the limit check is bound with let and lives
\* to the end of the function
FoodsSearchSteps_GuardKept ==
    <<"lock_config", "lock_db", "store", "sort", "unlock_db",
      "lock_config", "unlock_config", "return">>

\* foods_search, mode description: the config guard of the limit check is a
\* temporary of the condition; let db borrows from the store guard up to
\* the end of the match arm, over the search and the sort; then
\* fix_image_urls
FoodsSearchSteps ==
    <<"lock_config", "unlock_config", "lock_db", "store", "sort",
      "unlock_db", "lock_config", "unlock_config", "return">>

\* variant: the URLs are borrowed from the guard, not cloned
HealthSteps_NoClone ==
    <<"lock_config", "probe", "unlock_config", "lock_db", "store",
      "unlock_db", "return">>

\* health: the URLs are cloned and the config guard is a temporary of that
\* statement; the store guard is a temporary of the check_database statement
HealthSteps ==
    <<"lock_config", "unlock_config", "probe", "lock_db", "store",
      "unlock_db", "return">>

\* the routes of api_router
Handlers ==
    { [handler |-> "endpoints", code |-> EndpointsSteps],
      [handler |-> "foods", code |-> FoodsSteps],
      [handler |-> "food", code |-> FoodSteps],
      [handler |-> "foods_list", code |-> FoodsListSteps],
      [handler |-> "tags_list", code |-> TagsListSteps],
      [handler |-> "foods_search", code |-> FoodsSearchSteps],
      [handler |-> "health", code |-> HealthSteps] }

\* the awaits of a store operation, an outbound probe or the ranker
Suspensions == {"store", "probe", "sort"}

Running(t) == t \in 1..Len(tasks) /\ tasks[t].pc <= Len(tasks[t].code)

\* the step task t is at
At(t) == tasks[t].code[tasks[t].pc]

Waits(m, t) == \E k \in 1..Len(m.waiters) : m.waiters[k] = t

\* dropping the guard: the mutex goes to the first waiter, if there is one
Dropped(m) ==
    IF m.waiters = <<>> THEN [m EXCEPT !.owner = 0]
    ELSE [owner |-> Head(m.waiters), waiters |-> Tail(m.waiters)]

\* the tasks after the guard of mutex m was dropped by t: t goes on, and so
\* does the waiter that got the mutex
Resumed(m, t) ==
    [u \in 1..Len(tasks) |->
        IF u = t \/ (m.waiters # <<>> /\ u = Head(m.waiters))
        THEN [tasks[u] EXCEPT !.pc = @ + 1] ELSE tasks[u]]

\* a request arrives and its handler is spawned
Accept ==
    /\ phase = "serving"
    /\ Len(tasks) < MaxTasks
    /\ \E h \in Handlers :
          tasks' = Append(tasks, [handler |-> h.handler, code |-> h.code,
                                  pc |-> 1])
    /\ UNCHANGED <<db, coreVars, healthOut, clock, cache, quota, served,
                   calls, api_db, config>>

\* lock().await on a free mutex: the task has the guard
LockStep(t) ==
    /\ Running(t)
    /\ \/ /\ At(t) = "lock_db"
          /\ api_db.owner = 0
          /\ api_db' = [api_db EXCEPT !.owner = t]
          /\ config' = config
       \/ /\ At(t) = "lock_config"
          /\ config.owner = 0
          /\ config' = [config EXCEPT !.owner = t]
          /\ api_db' = api_db
    /\ tasks' = [tasks EXCEPT ![t].pc = @ + 1]
    /\ UNCHANGED <<db, coreVars, healthOut, clock, cache, quota, served,
                   calls>>

\* lock().await on a taken mutex: the task queues up and is suspended
QueueStep(t) ==
    /\ Running(t)
    /\ \/ /\ At(t) = "lock_db"
          /\ api_db.owner # 0
          /\ ~Waits(api_db, t)
          /\ api_db' = [api_db EXCEPT !.waiters = Append(@, t)]
          /\ config' = config
       \/ /\ At(t) = "lock_config"
          /\ config.owner # 0
          /\ ~Waits(config, t)
          /\ config' = [config EXCEPT !.waiters = Append(@, t)]
          /\ api_db' = api_db
    /\ UNCHANGED <<db, coreVars, healthOut, clock, cache, quota, served,
                   calls, tasks>>

\* the guard is dropped
UnlockStep(t) ==
    /\ Running(t)
    /\ \/ /\ At(t) = "unlock_db"
          /\ api_db' = Dropped(api_db)
          /\ tasks' = Resumed(api_db, t)
          /\ config' = config
       \/ /\ At(t) = "unlock_config"
          /\ config' = Dropped(config)
          /\ tasks' = Resumed(config, t)
          /\ api_db' = api_db
    /\ UNCHANGED <<db, coreVars, healthOut, clock, cache, quota, served,
                   calls>>

\* the awaited store operation, probe or sort is done
AwaitStep(t) ==
    /\ Running(t)
    /\ At(t) \in Suspensions
    /\ tasks' = [tasks EXCEPT ![t].pc = @ + 1]
    /\ UNCHANGED <<db, coreVars, healthOut, clock, cache, quota, served,
                   calls, api_db, config>>

\* the handler returns its response
ReturnStep(t) ==
    /\ Running(t)
    /\ At(t) = "return"
    /\ tasks' = [tasks EXCEPT ![t].pc = @ + 1]
    /\ UNCHANGED <<db, coreVars, healthOut, clock, cache, quota, served,
                   calls, api_db, config>>

\* the steps of task t
Run(t) ==
    LockStep(t) \/ QueueStep(t) \/ UnlockStep(t) \/ AwaitStep(t)
        \/ ReturnStep(t)

NextLocks ==
    \/ Accept
    \/ \E t \in 1..MaxTasks : LockStep(t)
    \/ \E t \in 1..MaxTasks : QueueStep(t)
    \/ \E t \in 1..MaxTasks : UnlockStep(t)
    \/ \E t \in 1..MaxTasks : AwaitStep(t)
    \/ \E t \in 1..MaxTasks : ReturnStep(t)

SpecLocks == InitInput /\ [][NextLocks]_vars

\* the runtime goes on polling every task that can run, and every store
\* operation, probe (3 s timeout) and sort ends
SpecLocksFair ==
    InitInput /\ [][NextLocks]_vars /\ \A t \in 1..MaxTasks : WF_vars(Run(t))

(***************************************************************************)
(* Properties                                                              *)
(***************************************************************************)
\* the foods row with this slug exists and is verified
VerifiedSlug(slug) ==
    \E i \in 1..Len(db.foods) :
        db.foods[i].slug = slug /\ db.foods[i].verified = 1

\* C1: no public read path returns a food that is not verified: a 200 of
\* GET /food/{slug} carries a verified food, every food of a search
\* response is verified, every slug of /foods/list is a verified food's
C1_OnlyVerifiedReturned ==
    /\ (resp.ep = "food" /\ resp.status = 200) =>
           /\ Len(resp.foods) = 1
           /\ resp.foods[1].slug = Some(resp.req.slug)
           /\ VerifiedSlug(resp.req.slug)
    /\ (resp.ep = "food" /\ resp.status # 200) => resp.foods = <<>>
    /\ resp.ep = "foods_search" =>
           \A k \in 1..Len(resp.foods) :
               /\ resp.foods[k].id # None
               /\ db.foods[resp.foods[k].id[1]].verified = 1
               /\ VerifiedSlug(resp.foods[k].slug[1])
    /\ resp.ep = "foods_list" => \A slug \in resp.slugs : VerifiedSlug(slug)

\* a search answered 200 with a food while an unverified food matched too
C1_Witness ==
    /\ resp.ep = "foods_search"
    /\ resp.status = 200
    /\ resp.foods # <<>>
    /\ \E i \in 1..Len(db.foods) :
           /\ db.foods[i].verified = 0
           /\ Like(db.foods[i].description,
                   <<"%">> \o resp.req.q \o <<"%">>)

\* the record and the store of the last insert_food call
CallFood == seedInput[lastCall.idx]

\* the call left the Food row of its record with its source, its image and
\* a link for each tag, allergen and serving of the record
FullyInserted(rec, before) ==
    \E i \in (Len(before.foods) + 1)..Len(db.foods) :
        /\ db.foods[i].description = rec.description
        /\ db.food_sources[db.foods[i].source_id] = rec.source
        /\ db.food_images[db.foods[i].image_id] = rec.image_url
        /\ \A k \in 1..Len(rec.tags) :
               \E l \in Range(db.food_tags) :
                   /\ l[1] = i
                   /\ to_lowercase(db.tags[l[2]]) = to_lowercase(rec.tags[k])
        /\ \A k \in 1..Len(rec.allergens) :
               \E l \in Range(db.food_allergens) :
                   /\ l[1] = i
                   /\ to_lowercase(db.allergens[l[2]])
                          = to_lowercase(rec.allergens[k])
        /\ \A k \in 1..Len(rec.servings) :
               \E r \in Range(db.food_servings) :
                   /\ r.food_id = i
                   /\ db.serving_descriptions[r.serving_description_id]
                          = rec.servings[k][1]
                   /\ r.weight = rec.servings[k][2]

\* C2: insert_food is all-or-nothing: after a call either the Food row and
\* all its links exist (and the call returned Ok), or the store is what it
\* was before the call, whichever step failed
C2_AllOrNothing ==
    lastCall.idx # 0 =>
        IF lastCall.res = "ok"
        THEN FullyInserted(CallFood, lastCall.before)
        ELSE db = lastCall.before

\* a call failed at a statement after its Food row and a tag were written
C2_Witness ==
    /\ lastCall.idx # 0
    /\ lastCall.res = "err"
    /\ lastCall.failAt.at = "stmt"
    /\ lastCall.failAt.k > 8
    /\ ~ food_exists_by_description(lastCall.before, CallFood.description)
    /\ ~ FoodsUniqueViolation(lastCall.before.foods,
                              FoodRow(CallFood, 0, 0, 0))

IsPrefixOf(s, t) == Len(s) <= Len(t) /\ SubSeq(t, 1, Len(s)) = s

\* every row of d is still in e, with the same id and the same values
RowsKept(d, e) ==
    /\ IsPrefixOf(d.foods, e.foods)
    /\ IsPrefixOf(d.food_sources, e.food_sources)
    /\ IsPrefixOf(d.food_images, e.food_images)
    /\ IsPrefixOf(d.tags, e.tags)
    /\ IsPrefixOf(d.allergens, e.allergens)
    /\ IsPrefixOf(d.serving_descriptions, e.serving_descriptions)
    /\ IsPrefixOf(d.food_tags, e.food_tags)
    /\ IsPrefixOf(d.food_allergens, e.food_allergens)
    /\ IsPrefixOf(d.food_servings, e.food_servings)

\* C3: insert_food of a description that has a Food row fails with
\* AlreadyExists (with the store's error when the existence query itself
\* fails) and changes nothing; no step of a seed run overwrites or deletes
\* a row
C3_ExistingUntouched ==
    [][ /\ RowsKept(db, db')
        /\ (lastCall' # lastCall /\ lastCall'.idx # 0
              /\ food_exists_by_description(
                     db, seedInput[lastCall'.idx].description)) =>
               /\ db' = db
               /\ lastCall'.res # "ok"
               /\ lastCall'.failAt.at # "exists" => lastCall'.res = "exists"
      ]_vars

\* a record was refused as existing while its values differ from the row's
C3_Witness ==
    /\ lastCall.idx # 0
    /\ lastCall.res = "exists"
    /\ \E i \in 1..Len(db.foods) :
           /\ db.foods[i].description = CallFood.description
           /\ db.foods[i].energy # CallFood.energy


\* C4: seeding is idempotent: when a seed run over the same input ends
\* (no store or file error injected), the store, ids and rows of every
\* table, is what the previous run left
C4_SeedIdempotent ==
    (phase = "seeded" /\ run >= 2 /\ faults = 0) => db = snap

\* a second run ended over a non-empty store, one of its records refused
\* as existing and another one failing on the slug of an existing row
C4_Witness ==
    /\ phase = "seeded"
    /\ run = 2
    /\ faults = 0
    /\ db.foods # <<>>
    /\ "exists" \in Range(seedLog)
    /\ "err" \in Range(seedLog)

\* the loop of connect_database ran to its end (the seed files were read)
LoopEnded == phase = "seeded" /\ seedIdx > Len(seedInput)

\* a Food row with the slug of this description and another description
SlugTaken(description) ==
    \E i \in 1..Len(db.foods) :
        /\ db.foods[i].slug = to_lower_en_kebab_case(description)
        /\ db.foods[i].description # description

\* C5: a failing record does not end the seed run: when connect_database
\* returns the pool, insert_food was called for every record of the input,
\* the ones after a failed call included, every call that returned Ok left
\* its row, and without injected errors the only records left without a
\* row are those whose slug another row holds
C5_SeedNotAborted ==
    LoopEnded =>
        /\ Len(seedLog) = Len(seedInput)
        /\ \A i \in 1..Len(seedInput) :
               /\ seedLog[i] = "ok" =>
                      food_exists_by_description(db, seedInput[i].description)
               /\ faults = 0 =>
                      \/ food_exists_by_description(
                             db, seedInput[i].description)
                      \/ SlugTaken(seedInput[i].description)

\* a record was inserted after the call for an earlier record had failed
C5_Witness ==
    /\ LoopEnded
    /\ \E i, j \in 1..Len(seedLog) :
           i < j /\ seedLog[i] # "ok" /\ seedLog[j] = "ok"

\* C6: no two Food rows share a slug, and the slug of every Food row is the
\* one derived from the row's description, whatever slug the record carried
C6_SlugDerivedUnique ==
    /\ \A i, j \in 1..Len(db.foods) :
           db.foods[i].slug = db.foods[j].slug => i = j
    /\ \A i \in 1..Len(db.foods) :
           db.foods[i].slug = to_lower_en_kebab_case(db.foods[i].description)

\* two Food rows, one of a record that carried another slug than the
\* derived one, and a record refused because its derived slug was taken
C6_Witness ==
    /\ Len(db.foods) >= 2
    /\ lastCall.idx # 0
    /\ lastCall.res = "ok"
    /\ CallFood.slug # None
    /\ CallFood.slug # Some(to_lower_en_kebab_case(CallFood.description))

NoRepeat(seq) == \A i, j \in 1..Len(seq) : seq[i] = seq[j] => i = j

\* C7: every stored Tag and Allergen description is lowercase, no two Tag
\* rows and no two Allergen rows have the same description, and no
\* (food, tag) or (food, allergen) link is stored twice
C7_TagsLowercaseUnique ==
    /\ \A i \in 1..Len(db.tags) : db.tags[i] = to_lowercase(db.tags[i])
    /\ \A i \in 1..Len(db.allergens) :
           db.allergens[i] = to_lowercase(db.allergens[i])
    /\ NoRepeat(db.tags)
    /\ NoRepeat(db.allergens)
    /\ NoRepeat(db.food_tags)
    /\ NoRepeat(db.food_allergens)

\* C8: round trip: after a call that returned Ok, select_food_by_slug with
\* the derived slug of the record reads the record's description, source,
\* image URL, servings and energy, the lowercased sets of its tags and
\* allergens, and verified as written, true when the record omitted it
C8_RoundTrip ==
    (lastCall.idx # 0 /\ lastCall.res = "ok") =>
        LET got == select_food_by_slug(
                       db, to_lower_en_kebab_case(CallFood.description))
        IN  /\ got # None
            /\ got[1].description = CallFood.description
            /\ got[1].source = CallFood.source
            /\ got[1].image_url = CallFood.image_url
            /\ Range(got[1].servings) = Range(CallFood.servings)
            /\ got[1].energy = CallFood.energy
            /\ got[1].verified = Some(unwrap_or(CallFood.verified, TRUE))
            /\ Range(got[1].tags)
                   = {to_lowercase(t) : t \in Range(CallFood.tags)}
            /\ Range(got[1].allergens)
                   = {to_lowercase(a) : a \in Range(CallFood.allergens)}

\* C9: the list the ranker leaves is a permutation of its input: the same
\* length, and every food of the input exactly once
C9_RankPermutation ==
    rankOut # None =>
        /\ Len(rankOut[1]) = Len(rankFoods)
        /\ \A i \in 1..Len(rankFoods) :
               Cardinality({k \in 1..Len(rankOut[1]) :
                               rankOut[1][k] = rankFoods[i]}) = 1

\* the ranker reordered a list in which one food does not contain the query
C9_Witness ==
    /\ rankOut # None
    /\ Len(rankFoods) >= 2
    /\ rankOut[1] # rankFoods
    /\ \E i \in 1..Len(rankFoods) :
           ~ contains(to_lowercase(rankFoods[i].description),
                      to_lowercase(rankQuery))

\* the lowercased description starts with the lowercased query
PrefixMatch(f) ==
    starts_with(to_lowercase(f.description), to_lowercase(rankQuery))

\* C10: in the ranked list every food whose lowercased description starts
\* with the lowercased query comes before every food in which the query
\* occurs only later or not at all
C10_PrefixFirst ==
    rankOut # None =>
        \A i, j \in 1..Len(rankOut[1]) :
            (PrefixMatch(rankOut[1][i]) /\ ~ PrefixMatch(rankOut[1][j]))
                => i < j

\* a query with a capital moved a food it is a prefix of ahead of a food
\* that has it later and of one that lacks it
C10_Witness ==
    /\ rankOut # None
    /\ rankQuery # to_lowercase(rankQuery)
    /\ Len(rankFoods) = MaxFoods
    /\ PrefixMatch(rankFoods[MaxFoods])
    /\ \E i \in 1..Len(rankFoods) :
           /\ ~ PrefixMatch(rankFoods[i])
           /\ contains(to_lowercase(rankFoods[i].description),
                       to_lowercase(rankQuery))
    /\ rankOut[1][1] = rankFoods[MaxFoods]

\* the score the ranker gives a food for the query of the call
ScoreOf(f) == ScoreEntry(0, f, to_lowercase(rankQuery))[1].score

\* C11: the ranker's sort is stable: the list it leaves is ordered by score
\* descending and foods of equal score keep the order of the input (the id
\* of a food is its place in the input), so a query that matches nothing
\* and the empty query leave the list as it was
C11_RankStable ==
    rankOut # None =>
        /\ \A i, j \in 1..Len(rankOut[1]) :
               i < j =>
                   \/ ScoreOf(rankOut[1][i]) > ScoreOf(rankOut[1][j])
                   \/ /\ ScoreOf(rankOut[1][i]) = ScoreOf(rankOut[1][j])
                      /\ rankOut[1][i].id < rankOut[1][j].id
        /\ (rankQuery = <<>>
              \/ \A i \in 1..Len(rankFoods) :
                     ~ contains(to_lowercase(rankFoods[i].description),
                                to_lowercase(rankQuery)))
               => rankOut[1] = rankFoods

\* the catalog holds the four foods
CatalogSeeded ==
    \A d \in {Karpuz, Portakal, Makarna, Elma} :
        food_exists_by_description(db, d)

\* the response to GET /foods/search?q=kar over the four foods
KarResponse ==
    /\ resp.ep = "foods_search"
    /\ resp.req.q = <<"k", "a", "r">>
    /\ resp.req.mode = None
    /\ resp.req.limit = None
    /\ CatalogSeeded

Descriptions(foods) == [k \in 1..Len(foods) |-> foods[k].description]

\* C12 as stated: the search for "kar" returns Karpuz, Portakal, Makarna,
\* Elma in this order
C12_KarOrder_Stated ==
    KarResponse =>
        /\ resp.status = 200
        /\ Descriptions(resp.foods) = <<Karpuz, Portakal, Makarna, Elma>>

\* C12: the search for "kar" over the four foods returns Karpuz and then
\* Makarna, whatever the order they were stored in, and neither Portakal
\* nor Elma, which do not contain "kar"
C12_KarOrder ==
    KarResponse =>
        /\ resp.status = 200
        /\ Descriptions(resp.foods) = <<Karpuz, Makarna>>

\* the search was answered over a catalog that stores Makarna before Karpuz
C12_Witness ==
    /\ KarResponse
    /\ resp.status = 200
    /\ \E i, j \in 1..Len(db.foods) :
           /\ i < j
           /\ db.foods[i].description = Makarna
           /\ db.foods[j].description = Karpuz

\* the mode a search request runs in
ModeOf(req) ==
    IF req.mode = None THEN ModeDescription ELSE to_lowercase(req.mode[1])

\* the verified foods the store holds that match a search request, in the
\* order of the store
VerifiedMatches(req) ==
    RetainVerified(IF ModeOf(req) = ModeTag
                   THEN search_foods_by_tag_wild(db, req.q)
                   ELSE search_foods_by_description_wild(db, req.q))

ValidSlug(slug) ==
    /\ len(slug) >= 1
    /\ len(slug) <= MaxSlugLen
    /\ sanitize_input(slug)

\* the ids of the Food rows with this slug
RowsOfSlug(slug) == {i \in 1..Len(db.foods) : db.foods[i].slug = slug}

\* C14: for a valid slug (and a store that answers) GET /food/{slug} gives
\* 404 exactly when no Food row has the slug, 403 exactly when the row is
\* not verified, 200 exactly when the row is verified, and only a 200
\* carries the food
C14_FoodOutcomes ==
    (resp.ep = "food" /\ ~ resp.req.store_error /\ ValidSlug(resp.req.slug))
        => LET rows == RowsOfSlug(resp.req.slug)
           IN  /\ resp.status \in {200, 403, 404}
               /\ resp.status = 404 <=> rows = {}
               /\ resp.status = 403 <=>
                      \E i \in rows : db.foods[i].verified = 0
               /\ resp.status = 200 <=>
                      \E i \in rows : db.foods[i].verified # 0
               /\ resp.status = 200 =>
                      /\ Len(resp.foods) = 1
                      /\ resp.foods[1].id \in {Some(i) : i \in rows}
                      /\ resp.foods[1].description
                             = db.foods[resp.foods[1].id[1]].description
               /\ resp.status # 200 => resp.foods = <<>>

\* GET /food/{slug} refused a food that is stored and not verified
C14_Witness ==
    /\ resp.ep = "food"
    /\ resp.status = 403
    /\ RowsOfSlug(resp.req.slug) # {}

\* the search request passes the size check, the limit check and the
\* sanitizer and names a mode the handler knows
ValidSearch(req) ==
    /\ size(req.q, req.mode) <= MaxParamsSize
    /\ unwrap_or(req.limit, DefaultLimit) <= SearchMaxLimit
    /\ sanitize_input(req.q)
    /\ ModeOf(req) \in {ModeDescription, ModeName, ModeTag}

StatedRejected(s) ==
    \/ \A i \in 1..Len(s) : s[i] = " "
    \/ \E i \in 1..Len(s) : s[i] \in {"/", "\\", "NUL", ";", "*", "'", "\""}
    \/ \E i \in 1..(Len(s) - 1) :
           <<s[i], s[i + 1]>> \in { <<".", ".">>, <<"-", "-">>,
                                    <<"/", "*">>, <<"*", "/">> }

\* C16: the sanitizer rejects exactly the stated strings: a slug or a
\* search query it rejects is answered 400 before any store read, and a
\* request that passes the other checks is answered 400 only then
C16_SanitizerRejects ==
    /\ resp.ep = "food" =>
           /\ sanitize_input(resp.req.slug)
                  <=> ~ StatedRejected(resp.req.slug)
           /\ StatedRejected(resp.req.slug)
                  => (resp.status = 400 /\ resp.reads = 0)
           /\ (resp.status = 400 /\ len(resp.req.slug) \in 1..MaxSlugLen)
                  => StatedRejected(resp.req.slug)
    /\ resp.ep = "foods_search" =>
           /\ sanitize_input(resp.req.q) <=> ~ StatedRejected(resp.req.q)
           /\ StatedRejected(resp.req.q)
                  => (resp.status = 400 /\ resp.reads = 0)
           /\ (resp.status = 400
                 /\ size(resp.req.q, resp.req.mode) <= MaxParamsSize
                 /\ unwrap_or(resp.req.limit, DefaultLimit) <= SearchMaxLimit
                 /\ ModeOf(resp.req) \in {ModeDescription, ModeName, ModeTag})
                  => StatedRejected(resp.req.q)

\* the search for ' OR 1=1 -- was refused with 400 without a store read,
\* with a store that would have failed
C16_Witness ==
    /\ resp.ep = "foods_search"
    /\ resp.req.q = <<"'", " ", "O", "R", " ", "1", "=", "1", " ", "-", "-">>
    /\ resp.req.store_error
    /\ resp.status = 400
    /\ resp.reads = 0

\* C17: GET /food/{slug} answers 400, without a store read, a slug of no
\* character and a slug of more than 100 characters, and passes every slug
\* of 1 to 100 characters to the sanitizer and, when that accepts it, to
\* the store
C17_SlugLength ==
    resp.ep = "food" =>
        /\ (Len(resp.req.slug) = 0 \/ Len(resp.req.slug) > MaxSlugLen)
               => (resp.status = 400 /\ resp.reads = 0)
        /\ (Len(resp.req.slug) \in 1..MaxSlugLen
              /\ sanitize_input(resp.req.slug))
               => (resp.status # 400 /\ resp.reads = 1)

\* the decimal digits of a limit
Digits(n) == IF n < 10 THEN 1 ELSE IF n < 100 THEN 2 ELSE 3

\* the bytes of the parameter set as it is sent: q=..&mode=..&limit=..
SerializedSize(req) ==
    2 + len(req.q)
      + (IF req.mode = None THEN 0 ELSE 6 + len(req.mode[1]))
      + (IF req.limit = None THEN 0 ELSE 7 + Digits(req.limit[1]))

\* C18: a search request that passes the other checks is answered 400
\* exactly when the serialized size of its parameters is more than 96 bytes
C18_ParamsSize ==
    (resp.ep = "foods_search"
       /\ unwrap_or(resp.req.limit, DefaultLimit) <= SearchMaxLimit
       /\ sanitize_input(resp.req.q)
       /\ ModeOf(resp.req) \in {ModeDescription, ModeName, ModeTag})
        => (resp.status = 400 <=> SerializedSize(resp.req) > MaxParamsSize)

\* the limit of a search request, 5 when it is omitted
StatedLimit(req) == IF req.limit = None THEN 5 ELSE req.limit[1]

\* C19: an omitted limit means 5; a search whose limit is above
\* search_max_limit is answered 400, without a store read; limit 0 is
\* accepted and gives an empty array; a 200 carries at most limit foods
C19_Limit ==
    resp.ep = "foods_search" =>
        /\ StatedLimit(resp.req) > SearchMaxLimit
               => (resp.status = 400 /\ resp.reads = 0)
        /\ resp.status = 200 =>
               /\ StatedLimit(resp.req) <= SearchMaxLimit
               /\ Len(resp.foods) <= StatedLimit(resp.req)
               /\ Len(resp.foods) = Len(VerifiedMatches(resp.req))
                      \/ Len(resp.foods) = StatedLimit(resp.req)
        /\ (StatedLimit(resp.req) = 0 /\ ValidSearch(resp.req)
              /\ ~ resp.req.store_error)
               => (resp.status = 200 /\ resp.foods = <<>>)

\* a search with limit 0 was answered 200 with no food while a verified
\* food matched
C19_Witness ==
    /\ resp.ep = "foods_search"
    /\ resp.req.limit = Some(0)
    /\ resp.status = 200
    /\ resp.foods = <<>>
    /\ VerifiedMatches(resp.req) # <<>>

\* the response is one the handler gives to the same request with
\* mode=description
AsDescription(r) ==
    \E d \in foods_search(db, r.req.q, Some(ModeDescription), r.req.limit,
                          r.req.store_error) :
        [d EXCEPT !.req = r.req] = r

\* C20 as stated: an omitted mode and mode=name get the response of
\* mode=description for the same q and limit; a mode value other than
\* description, name and tag is answered 400 without a store read
C20_Mode_Stated ==
    resp.ep = "foods_search" =>
        /\ (resp.req.mode = None
              \/ resp.req.mode = Some(<<"n", "a", "m", "e">>))
               => AsDescription(resp)
        /\ (resp.req.mode # None
              /\ resp.req.mode[1]
                     \notin {ModeDescription, <<"n", "a", "m", "e">>, ModeTag})
               => (resp.status = 400 /\ resp.reads = 0)

\* C20: the mode is compared in lowercase; an omitted mode and mode=name
\* get the response of mode=description for the same q and limit when that
\* request passes the size check, which counts the bytes of the mode; a
\* mode that is none of description, name, tag in lowercase is answered
\* 400 without a store read
C20_Mode ==
    resp.ep = "foods_search" =>
        /\ ((resp.req.mode = None
               \/ to_lowercase(resp.req.mode[1]) = <<"n", "a", "m", "e">>)
              /\ size(resp.req.q, Some(ModeDescription)) <= MaxParamsSize)
               => AsDescription(resp)
        /\ (resp.req.mode # None
              /\ to_lowercase(resp.req.mode[1])
                     \notin {ModeDescription, <<"n", "a", "m", "e">>, ModeTag})
               => (resp.status = 400 /\ resp.reads = 0)

\* a search with mode=name returned a food
C20_Witness ==
    /\ resp.ep = "foods_search"
    /\ resp.req.mode = Some(<<"n", "a", "m", "e">>)
    /\ resp.status = 200
    /\ resp.foods # <<>>

\* C21: the health handler answers 200 whatever the checks find; it reports
\* healthy exactly when one of the URLs it sent a request to returned a 2xx
\* and SELECT 1 returned its row; the URLs are tried in order up to the first
\* 2xx (none is tried when the list is empty); the two detail flags are the
\* results of the two checks
C21_Health ==
    healthOut # NoHealth =>
        LET h == healthOut
            reached == \E i \in 1..h.probes : h.urls[i] = "2xx"
        IN  /\ h.code = 200
            /\ h.status \in {"healthy", "unhealthy"}
            /\ h.status = "healthy" <=> (reached /\ h.select1 = "row")
            /\ h.internet_connection = reached
            /\ h.database_functionality = (h.select1 = "row")
            /\ h.probes <= Len(h.urls)
            /\ \A i \in 1..h.probes : h.urls[i] = "2xx" => i = h.probes
            /\ (h.client_ok /\ ~reached) => h.probes = Len(h.urls)
            /\ h.urls = <<>> => ~h.internet_connection

\* a failed first URL followed by a 2xx and a third URL never tried, with a
\* failing SELECT 1: unhealthy, answered with 200
C21_Witness ==
    /\ healthOut # NoHealth
    /\ healthOut.urls = <<"timeout", "2xx", "2xx">>
    /\ healthOut.probes = 2
    /\ healthOut.internet_connection
    /\ healthOut.select1 = "error"
    /\ healthOut.status = "unhealthy"
    /\ healthOut.code = 200

\* C22: the layers a request goes through run in the order UTF-8 stamping,
\* rejection translation, security headers, rate limiter, response cache,
\* handler; a response replayed from the cache has been counted by the rate
\* limiter, and a client that has used its budget gets 429 whether or not the
\* URL is cached
C22_LayerOrder ==
    served # NoServed =>
        LET order == << "utf8_header_middleware", "handle_axum_rejections",
                        "HelmetLayer", "RealIpLayer", "GovernorLayer",
                        "cache_middleware", "handler" >>
            key == RealIp(served.peer, served.xff)
        IN  /\ served.ran = SubSeq(order, 1, Len(served.ran))
            /\ served.from_cache =>
                  /\ served.charged
                  /\ served.quota_after[key] = served.quota_before[key] + 1
            /\ served.quota_before[key] >= RateLimit =>
                  /\ served.status = 429
                  /\ ~served.from_cache
                  /\ served.entry_after = served.entry_before
                  /\ served.quota_after = served.quota_before
            /\ served.status # 429 => served.charged

\* a client over its budget asks for a URL whose response is cached and
\* still alive: 429
C22_Witness ==
    /\ served # NoServed
    /\ served.status = 429
    /\ served.entry_before # None
    /\ Live(served.entry_before[1], served.time)
    /\ served.quota_before[RealIp(served.peer, served.xff)] = RateLimit

\* C23: a response replayed from the cache was written less than 10 minutes
\* ago, and an entry written 10 minutes ago or more is not replayed, however
\* recently it was read
C23_CacheTtl ==
    served # NoServed =>
        /\ served.from_cache =>
              (served.time - served.written) * TickMinutes <= TtlMinutes
        /\ (/\ served.entry_before # None
            /\ served.status # 429
            /\ (served.time - served.entry_before[1].written) * TickMinutes
                   >= TtlMinutes)
              => ~served.from_cache

\* an entry that was read 5 minutes after its write is not replayed 10
\* minutes after its write
C23_Witness ==
    /\ served # NoServed
    /\ served.entry_before # None
    /\ served.entry_before[1].read > served.entry_before[1].written
    /\ (served.time - served.entry_before[1].written) * TickMinutes
           = TtlMinutes
    /\ served.status = 200
    /\ ~served.from_cache

\* C24: the client IP a handler works with is the last value of
\* X-Forwarded-For when the header is there, and the peer address otherwise
C24_ClientIp ==
    (served # NoServed /\ served.client_ip # None) =>
        served.client_ip =
            Some(IF served.xff = None
                 THEN <<"p", "r", "o", "x", "y", ":", " ">> \o served.peer
                 ELSE LET pieces == split(served.xff[1], ",")
                      IN  trim(pieces[Len(pieces)]))

\* two calls are about the same Food: same description, or same derived slug
Collide(a, b) ==
    \/ a.description = b.description
    \/ to_lower_en_kebab_case(a.description)
           = to_lower_en_kebab_case(b.description)

\* C25: in every interleaving of concurrent insert_food calls, of the calls
\* with the same description or the same derived slug at most one returns
\* Ok and at most one Food row is in the store, and every change of the
\* store is the complete insert of a call that returns Ok
C25_ConcurrentInsert ==
    [][ /\ \A i, j \in 1..Len(calls') :
              (i # j /\ Collide(calls'[i].food, calls'[j].food))
                  => ~(calls'[i].res = "ok" /\ calls'[j].res = "ok")
        /\ \A a, b \in 1..Len(db'.foods) :
              (db'.foods[a].slug = db'.foods[b].slug
                  \/ db'.foods[a].description = db'.foods[b].description)
                  => a = b
        /\ db' # db =>
              \E i \in 1..Len(calls) :
                  /\ calls[i].pc = "commit"
                  /\ calls'[i].res = "ok"
                  /\ insert_food(db, calls[i].food,
                                 [at |-> "none", k |-> 0], run)
                         = [db |-> db', res |-> "ok",
                            id |-> Len(db'.foods)]
      ]_vars

\* two calls with the same description and different sources both passed
\* the existence check; one has committed, the other has failed in its
\* transaction and has left no row of its own
C25_Witness ==
    /\ Len(calls) = 2
    /\ calls[1].food.description = calls[2].food.description
    /\ calls[1].food.source # calls[2].food.source
    /\ calls[1].res = "err"
    /\ calls[2].res = "ok"
    /\ Len(db.foods) = 1
    /\ db.food_sources = <<calls[2].food.source>>

\* C26: a handler is not kept waiting for the store while the store read of
\* another handler is in progress
C26_ConcurrentReads ==
    \A a, b \in 1..Len(tasks) :
        (Running(a) /\ At(a) = "store") => ~Waits(api_db, b)

\* C27: a handler that holds the config guard is not at an await of a store
\* operation, an outbound probe or the ranker, and is not waiting for the
\* store mutex
C27_ConfigNotHeldOverAwait ==
    \A t \in 1..Len(tasks) :
        (Running(t) /\ config.owner = t) =>
            /\ At(t) \notin Suspensions
            /\ At(t) \notin {"lock_db", "lock_config"}

\* health has released the config guard and awaits its probe while another
\* handler holds the config guard
C27_Witness ==
    \E t, u \in 1..Len(tasks) :
        /\ tasks[t].handler = "health"
        /\ Running(t)
        /\ At(t) = "probe"
        /\ config.owner = u
        /\ u # t

\* C30: no handler holds the store guard and the config guard together, and
\* every handler that was started returns
C30_NoDeadlock ==
    /\ [](\A t \in 1..Len(tasks) : ~(api_db.owner = t /\ config.owner = t))
    /\ \A t \in 1..MaxTasks :
          (Len(tasks) >= t) ~> (Len(tasks) >= t /\ ~Running(t))

\* foods_search waits for the store mutex while food holds it
C30_Witness ==
    \E t, u \in 1..Len(tasks) :
        /\ t # u
        /\ api_db.owner = u
        /\ Waits(api_db, t)
        /\ tasks[t].handler = "foods_search"
        /\ tasks[u].handler = "food"

\* C28: the listener is bound only when the seed run has returned; a handler
\* answers only while the listener is bound, and the store it reads is the
\* one the seed run left: the store changes only while the seeder runs and no
\* handler does
C28_SeedBeforeServe ==
    [][ /\ (phase' = "serving" /\ phase # "serving") =>
              /\ phase = "seeded"
              /\ resp = NoResponse
        /\ (resp' # resp /\ resp' # NoResponse) =>
              /\ phase = "serving"
              /\ db' = db
              /\ db = snap
        /\ db' # db =>
              /\ phase = "seeding"
              /\ phase' = "seeding"
              /\ resp = NoResponse
      ]_vars

\* a handler has answered from a store into which the seed run has
\* inserted two foods
C28_Witness ==
    /\ phase = "serving"
    /\ resp # NoResponse
    /\ resp.ep = "foods_list"
    /\ resp.status = 200
    /\ Len(db.foods) = 2
    /\ db = snap

\* the lowercased query occurs in the lowercased description, not in front
InnerMatch(f) ==
    /\ contains(to_lowercase(f.description), to_lowercase(rankQuery))
    /\ ~ PrefixMatch(f)

\* C29: of two foods in which the query occurs without being a prefix, the
\* one in which it occurs earlier has a score at least as high and is not
\* ranked after the other
C29_EarlierMatchFirst ==
    rankOut # None =>
        \A i, j \in 1..Len(rankOut[1]) :
            (/\ InnerMatch(rankOut[1][i])
             /\ InnerMatch(rankOut[1][j])
             /\ find(to_lowercase(rankOut[1][i].description),
                     to_lowercase(rankQuery))
                  < find(to_lowercase(rankOut[1][j].description),
                         to_lowercase(rankQuery)))
                => (ScoreOf(rankOut[1][i]) >= ScoreOf(rankOut[1][j])
                       /\ i < j)

====
